---- MODULE Spec2Model ----
(***************************************************************************)
(* Model of the TOML template formatter (src/src/toml.rs).                 *)
(*                                                                         *)
(* Text is modelled as a sequence of tokens: one token per space, per      *)
(* newline and per punctuation character the formatter writes itself, and  *)
(* one token per caller-supplied string (names, documentation lines).      *)
(*                                                                         *)
(* Spec        drives the Formatter methods of TomlFormatter in any order  *)
(*             a caller could use, with caller-chosen arguments.           *)
(* FormatSpec  is toml::format: the generic traversal of a schema that     *)
(*             drives the same methods, then finish().                     *)
(***************************************************************************)
EXTENDS Integers, Sequences, FiniteSets, TLC

VARIABLES
    indent,      \* TomlFormatter.indent (u8)
    buffer,      \* TomlFormatter.buffer, as a token sequence
    stack,       \* TomlFormatter.stack
    status,      \* "live" | "finished" (consumed by finish) | "panicked"
    panicMsg,    \* the panic message, "" if none
    result,      \* what finish() returned: [some |-> BOOLEAN, text |-> tokens]
    comments,    \* FormatOptions.general.comments (not visible to TomlFormatter)
    gap,         \* FormatOptions.general.nested_field_gap
    call,        \* history: the last method call and its arguments
    pre,         \* history: buffer and stack just before the last call
    open,        \* history: names of the start_nested calls not yet matched
    wellNested,  \* history: no end_nested call came without an unmatched start_nested
    nEnter,      \* history: number of start_nested calls
    nExit,       \* history: number of end_nested calls
    ncalls,      \* history: number of method calls so far
    schema,      \* FormatSpec: the schema being formatted (0 when driven freely)
    pending,     \* FormatSpec: the calls the traversal has still to make
    first        \* FormatSpec: what an earlier format() call with the same arguments returned

vars == <<indent, buffer, stack, status, panicMsg, result, comments, gap, call, pre,
          open, wellNested, nEnter, nExit, ncalls, schema, pending, first>>

-----------------------------------------------------------------------------
(* Bounds *)

MaxCalls == 4       \* method calls per run of Spec
MaxDepth == 3       \* deepest nesting a caller of Spec builds

(* Program constants *)

UsizeModulus == 65536   \* 2^16: the narrowest usize Rust supports

-----------------------------------------------------------------------------
(* Tokens and text helpers *)

SP == " "
NL == "\n"

\* Display of a &str: the empty string writes nothing.
Str(s) == IF s = "" THEN <<>> ELSE <<s>>

\* "{: <1$}" applied to "" with width n: n spaces.
Spaces(n) == [i \in 1..n |-> SP]

RECURSIVE Join(_, _)
\* [&str]::join(sep)
Join(names, sep) ==
    IF names = <<>> THEN <<>>
    ELSE IF Len(names) = 1 THEN Str(names[1])
    ELSE Str(names[1]) \o <<sep>> \o Join(Tail(names), sep)

RECURSIVE FlattenSeq(_)
FlattenSeq(ss) == IF ss = <<>> THEN <<>> ELSE ss[1] \o FlattenSeq(Tail(ss))

\* The lines of a text: the token runs ended by a newline (an unfinished last
\* line is included).
Lines(toks) ==
    LET nl == {i \in 1..Len(toks) : toks[i] = NL}
        n == Cardinality(nl)
        \* position of the k-th newline; the end of the text for k = n + 1
        pos(k) == IF k = 0 THEN 0
                  ELSE IF k > n THEN Len(toks) + 1
                  ELSE CHOOSE i \in nl : Cardinality({j \in nl : j < i}) = k - 1
        count == IF toks # <<>> /\ toks[Len(toks)] # NL THEN n + 1 ELSE n
    IN  [k \in 1..count |-> SubSeq(toks, pos(k - 1) + 1, pos(k) - 1)]

IsPrefix(s, t) == Len(s) <= Len(t) /\ SubSeq(t, 1, Len(s)) = s

\* What was appended to the buffer by the last call.
Appended == SubSeq(buffer, Len(pre.buffer) + 1, Len(buffer))

RECURSIVE LeadingSpaces(_)
LeadingSpaces(line) ==
    IF line = <<>> \/ line[1] # SP THEN 0 ELSE 1 + LeadingSpaces(Tail(line))

-----------------------------------------------------------------------------
(* meta::Expr values and their TOML rendering *)

NoItems == <<>>
BoolExpr(b) == [tag |-> "Bool", b |-> b, s |-> "", items |-> NoItems]
StrExpr(s) == [tag |-> "Str", b |-> FALSE, s |-> s, items |-> NoItems]
ArrayExpr(items) == [tag |-> "Array", b |-> FALSE, s |-> "", items |-> items]
NoneValue == [tag |-> "None", b |-> FALSE, s |-> "", items |-> NoItems]

\* toml::to_string of a scalar
TomlScalar(e) ==
    IF e.tag = "Bool" THEN (IF e.b THEN <<"true">> ELSE <<"false">>)
    ELSE <<"\"">> \o Str(e.s) \o <<"\"">>

RECURSIVE TomlItems(_)
TomlItems(items) ==
    IF items = <<>> THEN <<>>
    ELSE IF Len(items) = 1 THEN TomlScalar(items[1])
    ELSE TomlScalar(items[1]) \o <<", ">> \o TomlItems(Tail(items))

\* toml::to_string: Err for an array whose elements differ in type.
TomlToString(e) ==
    IF e.tag = "Array"
    THEN IF \E i, j \in 1..Len(e.items) : e.items[i].tag # e.items[j].tag
         THEN [ok |-> FALSE, text |-> <<>>]
         ELSE [ok |-> TRUE, text |-> <<"[">> \o TomlItems(e.items) \o <<"]">>]
    ELSE [ok |-> TRUE, text |-> TomlScalar(e)]

-----------------------------------------------------------------------------
(* TomlFormatter *)

NoResult == [some |-> FALSE, text |-> <<>>]

NoCall == [op |-> "new", name |-> "", text |-> <<>>, doc |-> <<>>, value |-> NoneValue, size |-> 0]
Called(op) == [NoCall EXCEPT !.op = op]

\* Mutant: the product is computed in u8, before the widening.
emit_indentation_u8(d) == Spaces(((d % 256) * indent) % 256)

\* Mutant: the indent width, not multiplied by the depth.
emit_indentation_flat(d) == Spaces(indent % UsizeModulus)

\* emit_indentation(): the spaces it writes for a stack of depth d
emit_indentation(d) == Spaces((d * indent) % UsizeModulus)

\* Mutant: the comment is written without its indentation.
CommentLineNoIndent(d, text) == <<"#">> \o text \o <<NL>>

\* Mutant: the comment leader is missing.
CommentLineNoHash(d, text) == emit_indentation(d) \o text \o <<NL>>

\* comment(): the tokens it writes at depth d
CommentLine(d, text) == emit_indentation(d) \o <<"#">> \o text \o <<NL>>

\* Mutant: the header is written without its indentation.
HeaderLineNoIndent(st) == <<"[">> \o Join(st, ".") \o <<"]", NL>>

\* Mutant: the header names the new section only.
HeaderLineLastName(st) ==
    emit_indentation(Len(st)) \o <<"[">> \o Str(st[Len(st)]) \o <<"]", NL>>

\* start_nested(): the header line for the stack st
HeaderLine(st) == emit_indentation(Len(st)) \o <<"[">> \o Join(st, ".") \o <<"]", NL>>

\* Mutant: the documentation is written only when general.comments is set.
NestedLinesGated(st, doc) ==
    (IF comments
     THEN FlattenSeq([i \in 1..Len(doc) |-> CommentLine(Len(st), Str(doc[i]))])
     ELSE <<>>)
    \o HeaderLine(st)

\* Mutant: the documentation is written before the name is pushed.
NestedLinesDocsBeforePush(st, doc) ==
    FlattenSeq([i \in 1..Len(doc) |-> CommentLine(Len(st) - 1, Str(doc[i]))])
    \o HeaderLine(st)

\* start_nested(): what it writes once the name is pushed, st being the new stack
NestedLines(st, doc) ==
    FlattenSeq([i \in 1..Len(doc) |-> CommentLine(Len(st), Str(doc[i]))])
    \o HeaderLine(st)

\* Mutant: "{name} = " also when there is no default.
FieldTextAlwaysValue(name, printed) == Str(name) \o <<" = ">> \o printed.text

\* disabled_field(): the format_args! text; printed is the PrintExpr output,
\* with some = FALSE when the value is None
FieldText(name, printed) ==
    IF printed.some THEN Str(name) \o <<" = ">> \o printed.text
    ELSE Str(name) \o <<" =">>

\* Formatter::make_gap
GapLines(size) == [i \in 1..size |-> NL]

Live == status = "live"

Record(c) ==
    /\ call' = c
    /\ pre' = [buffer |-> buffer, stack |-> stack]
    /\ ncalls' = ncalls + 1

Keep == UNCHANGED <<indent, comments, gap, schema, first>>

\* Mutant: the line replaces the buffer instead of being appended to it.
DoCommentOverwrite(text) ==
    /\ buffer' = CommentLine(Len(stack), text)
    /\ UNCHANGED <<stack, status, panicMsg, result, open, wellNested, nEnter, nExit>>
    /\ Record([Called("comment") EXCEPT !.text = text])
    /\ Keep

DoComment(text) ==
    /\ buffer' = buffer \o CommentLine(Len(stack), text)
    /\ UNCHANGED <<stack, status, panicMsg, result, open, wellNested, nEnter, nExit>>
    /\ Record([Called("comment") EXCEPT !.text = text])
    /\ Keep

\* Mutant: a serialization error is swallowed and the value left out.
DoDisabledFieldSwallow(name, value) ==
    /\ LET printed == TomlToString(value)
       IN  buffer' = buffer \o CommentLine(Len(stack),
                        FieldText(name, [some |-> value.tag # "None", text |-> printed.text]))
    /\ UNCHANGED <<stack, status, panicMsg, result, open, wellNested, nEnter, nExit>>
    /\ Record([Called("disabled_field") EXCEPT !.name = name, !.value = value])
    /\ Keep

DoDisabledField(name, value) ==
    /\ LET printed == TomlToString(value)
       IN  IF value.tag = "None"
           THEN /\ buffer' = buffer \o CommentLine(Len(stack),
                                        FieldText(name, [some |-> FALSE, text |-> <<>>]))
                /\ UNCHANGED <<status, panicMsg>>
           ELSE IF printed.ok
           THEN /\ buffer' = buffer \o CommentLine(Len(stack),
                                        FieldText(name, [some |-> TRUE, text |-> printed.text]))
                /\ UNCHANGED <<status, panicMsg>>
           ELSE \* PrintExpr::fmt panics after "#{name} = " has been written
                /\ buffer' = buffer \o emit_indentation(Len(stack))
                        \o <<"#">> \o Str(name) \o <<" = ">>
                /\ status' = "panicked"
                /\ panicMsg' = "string serialization to TOML failed"
    /\ UNCHANGED <<stack, result, open, wellNested, nEnter, nExit>>
    /\ Record([Called("disabled_field") EXCEPT !.name = name, !.value = value])
    /\ Keep

\* Mutant: the header is written for the new path, the name is not pushed.
DoStartNestedNoPush(name, doc) ==
    /\ buffer' = buffer \o NestedLines(Append(stack, name), doc)
    /\ open' = Append(open, name)
    /\ nEnter' = nEnter + 1
    /\ UNCHANGED <<stack, status, panicMsg, result, wellNested, nExit>>
    /\ Record([Called("start_nested") EXCEPT !.name = name, !.doc = doc])
    /\ Keep

DoStartNested(name, doc) ==
    /\ stack' = Append(stack, name)
    /\ buffer' = buffer \o NestedLines(Append(stack, name), doc)
    /\ open' = Append(open, name)
    /\ nEnter' = nEnter + 1
    /\ UNCHANGED <<status, panicMsg, result, wellNested, nExit>>
    /\ Record([Called("start_nested") EXCEPT !.name = name, !.doc = doc])
    /\ Keep

\* Mutant: the top of the stack is looked at, not removed.
DoEndNestedNoPop ==
    /\ IF stack = <<>>
       THEN status' = "panicked" /\ panicMsg' = "formatter bug: stack empty"
       ELSE UNCHANGED <<status, panicMsg>>
    /\ IF open = <<>>
       THEN wellNested' = FALSE /\ UNCHANGED open
       ELSE open' = SubSeq(open, 1, Len(open) - 1) /\ UNCHANGED wellNested
    /\ nExit' = nExit + 1
    /\ UNCHANGED <<buffer, stack, result, nEnter>>
    /\ Record(Called("end_nested"))
    /\ Keep

\* Mutant: the outermost name is removed, not the one pushed last.
DoEndNestedPopFront ==
    /\ IF stack = <<>>
       THEN /\ status' = "panicked"
            /\ panicMsg' = "formatter bug: stack empty"
            /\ UNCHANGED stack
       ELSE /\ stack' = Tail(stack)
            /\ UNCHANGED <<status, panicMsg>>
    /\ IF open = <<>>
       THEN wellNested' = FALSE /\ UNCHANGED open
       ELSE open' = SubSeq(open, 1, Len(open) - 1) /\ UNCHANGED wellNested
    /\ nExit' = nExit + 1
    /\ UNCHANGED <<buffer, result, nEnter>>
    /\ Record(Called("end_nested"))
    /\ Keep

\* Mutant: popping an empty stack is ignored.
DoEndNestedIgnoreEmpty ==
    /\ stack' = IF stack = <<>> THEN <<>> ELSE SubSeq(stack, 1, Len(stack) - 1)
    /\ IF open = <<>>
       THEN wellNested' = FALSE /\ UNCHANGED open
       ELSE open' = SubSeq(open, 1, Len(open) - 1) /\ UNCHANGED wellNested
    /\ nExit' = nExit + 1
    /\ UNCHANGED <<buffer, status, panicMsg, result, nEnter>>
    /\ Record(Called("end_nested"))
    /\ Keep

DoEndNested ==
    /\ IF stack = <<>>
       THEN /\ status' = "panicked"
            /\ panicMsg' = "formatter bug: stack empty"
            /\ UNCHANGED stack
       ELSE /\ stack' = SubSeq(stack, 1, Len(stack) - 1)
            /\ UNCHANGED <<status, panicMsg>>
    /\ IF open = <<>>
       THEN wellNested' = FALSE /\ UNCHANGED open
       ELSE open' = SubSeq(open, 1, Len(open) - 1) /\ UNCHANGED wellNested
    /\ nExit' = nExit + 1
    /\ UNCHANGED <<buffer, result, nEnter>>
    /\ Record(Called("end_nested"))
    /\ Keep

DoMakeGap(size) ==
    /\ buffer' = buffer \o GapLines(size)
    /\ UNCHANGED <<stack, status, panicMsg, result, open, wellNested, nEnter, nExit>>

\* Mutant: the gap line is written after the indentation.
DoStartMainIndented ==
    /\ buffer' = buffer \o emit_indentation(Len(stack)) \o GapLines(1)
    /\ UNCHANGED <<stack, status, panicMsg, result, open, wellNested, nEnter, nExit>>
    /\ Record(Called("start_main"))
    /\ Keep

\* Mutant: no gap is written.
DoStartMainNoGap ==
    /\ UNCHANGED <<buffer, stack, status, panicMsg, result, open, wellNested, nEnter, nExit>>
    /\ Record(Called("start_main"))
    /\ Keep

DoStartMain ==
    /\ DoMakeGap(1)
    /\ Record(Called("start_main"))
    /\ Keep

\* Mutant: the buffer is returned without the assertion.
DoFinishNoAssert ==
    /\ status' = "finished"
    /\ result' = [some |-> TRUE, text |-> buffer]
    /\ UNCHANGED <<buffer, stack, panicMsg, open, wellNested, nEnter, nExit>>
    /\ Record(Called("finish"))
    /\ Keep

DoFinish ==
    /\ IF stack = <<>>
       THEN /\ status' = "finished"
            /\ result' = [some |-> TRUE, text |-> buffer]
            /\ UNCHANGED panicMsg
       ELSE /\ status' = "panicked"
            /\ panicMsg' = "formatter bug: stack not empty"
            /\ UNCHANGED result
    /\ UNCHANGED <<buffer, stack, open, wellNested, nEnter, nExit>>
    /\ Record(Called("finish"))
    /\ Keep

-----------------------------------------------------------------------------
(* Spec: a caller drives the formatter freely *)

Indents == {0, 2, 5}
Names == {"a", "b", "c"}
\* The documentation of a section is fixed by the schema: section b has some.
SectionDoc(name) == IF name = "b" THEN <<" d1", " d2">> ELSE <<>>
Texts == {"", " note"}
FieldNames == {"x"}
Values == {NoneValue, BoolExpr(TRUE), ArrayExpr(<<BoolExpr(TRUE), StrExpr("s")>>)}

\* TomlFormatter::new
new(ind) ==
    /\ indent = ind
    /\ buffer = <<>>
    /\ stack = <<>>
    /\ status = "live"
    /\ panicMsg = ""
    /\ result = NoResult
    /\ call = NoCall
    /\ pre = [buffer |-> <<>>, stack |-> <<>>]
    /\ open = <<>>
    /\ wellNested = TRUE
    /\ nEnter = 0
    /\ nExit = 0
    /\ ncalls = 0

Init ==
    /\ \E ind \in Indents : new(ind)
    /\ comments \in BOOLEAN
    /\ gap = 1
    /\ schema = 0
    /\ pending = <<>>
    /\ first = NoResult

CanCall == Live /\ ncalls < MaxCalls

comment == CanCall /\ UNCHANGED pending /\ \E t \in Texts : DoComment(Str(t))

disabled_field ==
    CanCall /\ UNCHANGED pending
    /\ \E n \in FieldNames, v \in Values : DoDisabledField(n, v)

start_nested ==
    CanCall /\ UNCHANGED pending /\ Len(stack) < MaxDepth
    /\ \E n \in Names : \E d \in {<<>>, SectionDoc(n)} : DoStartNested(n, d)

end_nested == CanCall /\ UNCHANGED pending /\ DoEndNested

start_main == CanCall /\ UNCHANGED pending /\ DoStartMain

\* finish() consumes the formatter; it may come after any number of calls.
finish == Live /\ UNCHANGED pending /\ DoFinish

Next == comment \/ disabled_field \/ start_nested \/ end_nested \/ start_main \/ finish

Spec == Init /\ [][Next]_vars

-----------------------------------------------------------------------------
(* FormatSpec: toml::format, the generic traversal driving the formatter *)

EmptyMeta == [doc |-> <<>>, fields |-> <<>>]

Leaf(name, doc, optional, default, env) ==
    [name |-> name, doc |-> doc, kind |-> "leaf", optional |-> optional,
     default |-> default, env |-> env, meta |-> EmptyMeta]

Nested(name, doc, meta) ==
    [name |-> name, doc |-> doc, kind |-> "nested", optional |-> FALSE,
     default |-> NoneValue, env |-> "", meta |-> meta]

\* The schema of the documentation example of format(). A backquote in a
\* documentation string is written ' here (strings cannot hold a backquote).
LogConfig ==
    [doc |-> <<>>,
     fields |-> <<
        Leaf("stdout", <<" If set to 'true', the app will log to stdout.">>,
             FALSE, BoolExpr(TRUE), ""),
        Leaf("file",
             <<" If this is set, the app will write logs to the given file. Of course,",
               " the app has to have write access to that file.">>,
             TRUE, NoneValue, "LOG_FILE") >>]

Conf ==
    [doc |-> <<" App configuration.">>,
     fields |-> <<
        Leaf("color", <<" The color of the app.">>, FALSE, NoneValue, ""),
        Nested("log", <<>>, LogConfig) >>]

\* Section a directly containing section b; both sections documented.
ConfB ==
    [doc |-> <<>>,
     fields |-> << Leaf("names", <<" Names.">>, FALSE,
                        ArrayExpr(<<StrExpr("x"), StrExpr("y")>>), "") >>]

ConfA == [doc |-> <<>>, fields |-> << Nested("b", <<" Section b.">>, ConfB) >>]

Conf2 == [doc |-> <<>>, fields |-> << Nested("a", <<" Section a.">>, ConfA) >>]

\* A default the TOML serializer rejects.
Conf3 ==
    [doc |-> <<>>,
     fields |-> <<
        Leaf("level", <<>>, FALSE, StrExpr("info"), "LEVEL"),
        Nested("net", <<" Network.">>,
               [doc |-> <<>>,
                fields |-> << Leaf("ports", <<>>, FALSE,
                                   ArrayExpr(<<BoolExpr(FALSE), StrExpr("x")>>), "") >>]) >>]

SchemaIds == {1, 2, 3}
Schema(id) == IF id = 1 THEN Conf ELSE IF id = 2 THEN Conf2 ELSE Conf3

CommentCall(s) == [Called("comment") EXCEPT !.text = Str(s)]

\* The calls made for one leaf field.
LeafCalls(f, cm) ==
    LET docs == [i \in 1..Len(f.doc) |-> CommentCall(f.doc[i])]
        sep == IF f.doc # <<>> THEN <<CommentCall("")>> ELSE <<>>
        envc == IF f.env # ""
                THEN sep \o <<[Called("comment") EXCEPT !.text =
                        <<" Can also be specified via environment variable '", f.env, "'.">>]>>
                ELSE <<>>
        sep2 == IF f.doc # <<>> \/ f.env # "" THEN <<CommentCall("")>> ELSE <<>>
        stat == IF f.optional THEN <<>>
                ELSE sep2 \o <<[Called("default_or_required_comment")
                                   EXCEPT !.value = f.default]>>
    IN  (IF cm THEN docs \o envc \o stat ELSE <<>>)
        \o <<[Called("disabled_field") EXCEPT !.name = f.name, !.value = f.default]>>

RECURSIVE FormatImpl(_, _, _)
\* The calls made for the fields of one section, in declaration order.
FormatImpl(meta, cm, gp) ==
    LET RECURSIVE From(_)
        From(i) ==
            IF i > Len(meta.fields) THEN <<>>
            ELSE LET f == meta.fields[i]
                     before == IF i = 1 THEN <<>>
                               ELSE IF f.kind = "nested"
                               THEN <<[Called("make_gap") EXCEPT !.size = gp]>>
                               ELSE <<[Called("make_gap") EXCEPT !.size = IF cm THEN 1 ELSE 0]>>
                     body == IF f.kind = "nested"
                             THEN <<[Called("start_nested") EXCEPT
                                        !.name = f.name,
                                        !.doc = IF cm THEN f.doc ELSE <<>>]>>
                                  \o FormatImpl(f.meta, cm, gp)
                                  \o <<Called("end_nested")>>
                             ELSE LeafCalls(f, cm)
                 IN  before \o body \o From(i + 1)
    IN  From(1)

\* format::format: root documentation, start_main, then the fields.
FormatCalls(meta, cm, gp) ==
    (IF cm THEN [i \in 1..Len(meta.doc) |-> CommentCall(meta.doc[i])] ELSE <<>>)
    \o <<Called("start_main")>>
    \o FormatImpl(meta, cm, gp)

Gaps == {1, 2}

FormatInit ==
    /\ \E ind \in Indents : new(ind)
    /\ comments \in BOOLEAN
    /\ gap \in Gaps
    /\ schema \in SchemaIds
    /\ pending = FormatCalls(Schema(schema), comments, gap)
    /\ first = NoResult

\* Formatter::default_or_required_comment
DoDefaultOrRequiredComment(value) ==
    /\ LET printed == TomlToString(value)
       IN  IF value.tag = "None"
           THEN /\ buffer' = buffer \o CommentLine(Len(stack),
                                        <<" Required! This value must be specified.">>)
                /\ UNCHANGED <<status, panicMsg>>
           ELSE IF printed.ok
           THEN /\ buffer' = buffer \o CommentLine(Len(stack),
                                        <<" Default value: ">> \o printed.text)
                /\ UNCHANGED <<status, panicMsg>>
           ELSE /\ buffer' = buffer \o emit_indentation(Len(stack))
                        \o <<"#", " Default value: ">>
                /\ status' = "panicked"
                /\ panicMsg' = "string serialization to TOML failed"
    /\ UNCHANGED <<stack, result, open, wellNested, nEnter, nExit>>
    /\ Record([Called("default_or_required_comment") EXCEPT !.value = value])
    /\ Keep

Step(op) == Live /\ pending # <<>> /\ Head(pending).op = op /\ pending' = Tail(pending)

walk_comment == Step("comment") /\ DoComment(Head(pending).text)

walk_status == Step("default_or_required_comment")
                   /\ DoDefaultOrRequiredComment(Head(pending).value)

walk_disabled_field ==
    Step("disabled_field") /\ DoDisabledField(Head(pending).name, Head(pending).value)

walk_start_nested ==
    Step("start_nested") /\ DoStartNested(Head(pending).name, Head(pending).doc)

walk_end_nested == Step("end_nested") /\ DoEndNested

walk_start_main == Step("start_main") /\ DoStartMain

walk_make_gap ==
    /\ Step("make_gap")
    /\ DoMakeGap(Head(pending).size)
    /\ Record(Head(pending))
    /\ Keep

\* format(): out.finish() once the traversal has returned
walk_finish == Live /\ pending = <<>> /\ UNCHANGED pending /\ DoFinish

\* Mutant: the buffer of the earlier call is used again.
NewBufferReused(old) == old

\* TomlFormatter::new: the buffer of a new formatter, whatever an earlier
\* formatter's buffer (old) held
NewBuffer(old) == <<>>

\* format() called a second time with the same schema and options, after the
\* first call has returned.
format_again ==
    /\ status = "finished" /\ ~first.some
    /\ first' = result
    /\ buffer' = NewBuffer(buffer)
    /\ stack' = <<>>
    /\ status' = "live"
    /\ panicMsg' = ""
    /\ result' = NoResult
    /\ call' = NoCall
    /\ pre' = [buffer |-> <<>>, stack |-> <<>>]
    /\ open' = <<>>
    /\ wellNested' = TRUE
    /\ nEnter' = 0
    /\ nExit' = 0
    /\ ncalls' = 0
    /\ pending' = FormatCalls(Schema(schema), comments, gap)
    /\ UNCHANGED <<indent, comments, gap, schema>>

FormatNext ==
    \/ walk_comment \/ walk_status \/ walk_disabled_field \/ walk_start_nested
    \/ walk_end_nested \/ walk_start_main \/ walk_make_gap \/ walk_finish
    \/ format_again

FormatSpec == FormatInit /\ [][FormatNext]_vars

-----------------------------------------------------------------------------
(* Reading the output *)

RECURSIVE Strip(_)
\* A line without its leading spaces.
Strip(line) == IF line = <<>> \/ line[1] # SP THEN line ELSE Strip(Tail(line))

AppendedLines == Lines(Appended)

IsHeader(line) == Strip(line) # <<>> /\ Strip(line)[1] = "["

\* A commented-out assignment: "#", the name, then " =" or " = ".
IsAssignment(line) ==
    LET l == Strip(line)
    IN  Len(l) >= 3 /\ l[1] = "#" /\ l[3] \in {" =", " = "}

\* A documentation or status comment: a comment that is no assignment.
IsDocComment(line) == Strip(line) # <<>> /\ Strip(line)[1] = "#" /\ ~IsAssignment(line)

\* The names between the brackets of a header line.
HeaderPath(line) ==
    LET l == Strip(line)
        inner == SubSeq(l, 2, Len(l) - 1)
    IN  [i \in 1..((Len(inner) + 1) \div 2) |-> inner[2 * i - 1]]

HeaderDots(line) ==
    LET l == Strip(line)
        inner == SubSeq(l, 2, Len(l) - 1)
    IN  \A i \in 1..Len(inner) : (i % 2 = 0) => inner[i] = "."

Count(seq, P(_)) == Cardinality({i \in 1..Len(seq) : P(seq[i])})

Last(seq) == seq[Len(seq)]

-----------------------------------------------------------------------------
(* Claims, checked under Spec *)

\* C1: when finish() is called after a properly nested sequence of
\* start_nested / end_nested calls (every start matched by a later end, no
\* end without an unmatched start), whatever comment and disabled_field calls
\* came in between, the stack is empty, finish() succeeds and it returns the
\* accumulated buffer.
C1_BalancedFinishSucceeds ==
    (call.op = "finish" /\ wellNested /\ open = <<>> /\ nEnter = nExit)
        => /\ pre.stack = <<>>
           /\ status = "finished"
           /\ result = [some |-> TRUE, text |-> pre.buffer]
           /\ buffer = pre.buffer

C1_Witness ==
    /\ call.op = "finish" /\ status = "finished"
    /\ nEnter = 2 /\ nExit = 2
    /\ \E i \in 1..Len(result.text) : result.text[i] = "["

\* C2: finish() called while the stack is non-empty (more start_nested than
\* end_nested calls so far) panics and returns no string.
C2_UnbalancedFinishFails ==
    /\ (call.op = "finish" /\ (pre.stack # <<>> \/ nEnter > nExit))
          => /\ status = "panicked"
             /\ panicMsg = "formatter bug: stack not empty"
             /\ result = NoResult
    /\ result.some => (open = <<>> /\ nEnter = nExit)

C2_Witness ==
    /\ call.op = "finish" /\ status = "panicked"
    /\ nEnter = 2 /\ nExit = 1
    /\ buffer # <<>> /\ ~result.some

\* C3: end_nested() called with an empty stack panics, right after
\* construction as well as after a balanced prefix of calls.
C3_ExitOnEmptyFails ==
    (call.op = "end_nested" /\ (pre.stack = <<>> \/ nExit > nEnter))
        => /\ status = "panicked"
           /\ panicMsg = "formatter bug: stack empty"
           /\ ~result.some

C3_Witness ==
    /\ call.op = "end_nested" /\ status = "panicked"
    /\ nEnter = 1 /\ nExit = 2 /\ pre.stack = <<>>

\* C4: the header line written by start_nested(name, doc) holds, between
\* its brackets, all names of the unmatched start_nested calls from the
\* outermost to the new one, joined by ".": [a] and then [a.b], at any depth.
C4_HeaderIsFullPath ==
    (call.op = "start_nested")
        => LET h == Last(AppendedLines)
           IN  /\ IsHeader(h)
               /\ Last(Strip(h)) = "]"
               /\ HeaderDots(h)
               /\ HeaderPath(h) = open
               /\ HeaderPath(h) = Append(pre.stack, call.name)
               /\ Count(Lines(buffer), IsHeader) = nEnter

C4_Witness ==
    /\ call.op = "start_nested" /\ ncalls = 2
    /\ open = <<"a", "b">>
    /\ Strip(Last(AppendedLines)) = <<"[", "a", ".", "b", "]">>
    /\ Strip(Lines(pre.buffer)[Len(Lines(pre.buffer))]) = <<"[", "a", "]">>

\* C5: every line written by comment(), disabled_field() or start_nested()
\* starts with exactly (stack depth when it is written) * indent spaces,
\* followed by "#" or "["; at depth 0 there are no leading spaces.
C5_IndentIsDepthTimesIndent ==
    (call.op \in {"comment", "disabled_field", "start_nested"})
        => /\ AppendedLines # <<>>
           /\ \A i \in 1..Len(AppendedLines) :
                LET l == AppendedLines[i]
                IN  /\ LeadingSpaces(l) = Len(stack) * indent
                    /\ Strip(l) # <<>> /\ Strip(l)[1] \in {"#", "["}
                    /\ (Len(stack) = 0 => l[1] # SP)

C5_Witness ==
    /\ call.op = "comment" /\ indent = 5 /\ Len(stack) = 2
    /\ LeadingSpaces(Last(AppendedLines)) = 10

\* C6: a disabled_field(name, value) call that returns has appended exactly
\* one line: after the indentation "#name =" when there is no default and
\* "#name = " followed by the printed default otherwise; no call writes an
\* assignment that is not commented out.
C6_FieldIsCommentedAssignment ==
    (call.op = "disabled_field")
        => /\ Appended # <<>>
           /\ Strip(Appended)[1] = "#"
           /\ status = "live" =>
                /\ Len(AppendedLines) = 1
                /\ Last(Appended) = NL
                /\ LET l == Strip(AppendedLines[1])
                   IN  /\ l[2] = call.name
                       /\ (call.value.tag = "None") => l = <<"#", call.name, " =">>
                       /\ (call.value.tag # "None") =>
                            /\ Len(l) > 3 /\ l[3] = " = "
                            /\ SubSeq(l, 4, Len(l)) = TomlToString(call.value).text
                       /\ (call.value = BoolExpr(TRUE)) => l = <<"#", call.name, " = ", "true">>

C6_Witness ==
    /\ call.op = "disabled_field" /\ status = "live"
    /\ call.value = BoolExpr(TRUE) /\ Len(stack) = 1 /\ indent = 2
    /\ AppendedLines = << <<SP, SP, "#", "x", " = ", "true">> >>

\* C7 as stated: start_nested(name, doc) writes the documentation lines only
\* when general.comments is enabled; with general.comments disabled it
\* appends the header line and nothing else.
C7_DocsOnlyWhenCommentsEnabled ==
    (call.op = "start_nested")
        => /\ (Count(AppendedLines, IsDocComment) > 0) => comments
           /\ ~comments => Len(AppendedLines) = 1

\* C7 amended: start_nested(name, doc) writes every line of doc as a comment,
\* in order, and then the header, whatever general.comments is; it appends
\* the header alone exactly when doc is empty.
C7_DocsAlwaysWritten ==
    (call.op = "start_nested")
        => /\ Len(AppendedLines) = Len(call.doc) + 1
           /\ \A i \in 1..Len(call.doc) :
                Strip(AppendedLines[i]) = <<"#">> \o Str(call.doc[i])
           /\ IsHeader(Last(AppendedLines))
           /\ Count(AppendedLines, IsDocComment) = Len(call.doc)

C7_Witness ==
    /\ call.op = "start_nested" /\ ~comments
    /\ call.doc = <<" d1", " d2">>
    /\ Len(AppendedLines) = 3
    /\ IsDocComment(AppendedLines[1]) /\ IsDocComment(AppendedLines[2])

\* C9: comment(text) never fails, leaves the stack as it was and appends
\* exactly the indentation, "#", the text and one newline.
C9_CommentAppendsOneLine ==
    /\ (call.op = "comment")
          => /\ status = "live"
             /\ stack = pre.stack
             /\ buffer = pre.buffer \o Spaces(Len(pre.stack) * indent)
                                    \o <<"#">> \o call.text \o <<NL>>
    /\ (Live /\ ncalls < MaxCalls) => ENABLED comment

C9_Witness ==
    /\ call.op = "comment" /\ stack = <<"a", "b">> /\ indent = 2
    /\ call.text = <<" note">>
    /\ Appended = <<SP, SP, SP, SP, "#", " note", NL>>

-----------------------------------------------------------------------------
(* Claims, checked under FormatSpec *)

RECURSIVE LeafCount(_)
LeafCount(meta) ==
    LET RECURSIVE From(_)
        From(i) == IF i > Len(meta.fields) THEN 0
                   ELSE (IF meta.fields[i].kind = "leaf" THEN 1
                         ELSE LeafCount(meta.fields[i].meta)) + From(i + 1)
    IN  From(1)

RECURSIVE NestedCount(_)
NestedCount(meta) ==
    LET RECURSIVE From(_)
        From(i) == IF i > Len(meta.fields) THEN 0
                   ELSE (IF meta.fields[i].kind = "leaf" THEN 0
                         ELSE 1 + NestedCount(meta.fields[i].meta)) + From(i + 1)
    IN  From(1)

RECURSIVE PreOrderNames(_)
\* The field and section names of a schema in pre-order declaration order.
PreOrderNames(meta) ==
    LET RECURSIVE From(_)
        From(i) == IF i > Len(meta.fields) THEN <<>>
                   ELSE <<meta.fields[i].name>>
                        \o (IF meta.fields[i].kind = "leaf" THEN <<>>
                            ELSE PreOrderNames(meta.fields[i].meta))
                        \o From(i + 1)
    IN  From(1)

IsNamed(line) == IsHeader(line) \/ IsAssignment(line)

\* The names the output mentions, in order: the name of every assignment
\* line and the last name of every header line.
OutputNames(lines) ==
    LET named == SelectSeq(lines, IsNamed)
    IN  [i \in 1..Len(named) |->
            IF IsHeader(named[i]) THEN Last(HeaderPath(named[i]))
            ELSE Strip(named[i])[2]]

Finished == status = "finished"

Expected == <<
    <<"#", " App configuration.">>,
    <<>>,
    <<"#", " The color of the app.">>,
    <<"#">>,
    <<"#", " Required! This value must be specified.">>,
    <<"#", "color", " =">>,
    <<>>,
    <<"[", "log", "]">>,
    <<"#", " If set to 'true', the app will log to stdout.">>,
    <<"#">>,
    <<"#", " Default value: ", "true">>,
    <<"#", "stdout", " = ", "true">>,
    <<>>,
    <<"#", " If this is set, the app will write logs to the given file. Of course,">>,
    <<"#", " the app has to have write access to that file.">>,
    <<"#">>,
    <<"#", " Can also be specified via environment variable '", "LOG_FILE", "'.">>,
    <<"#", "file", " =">> >>

ExampleRun == Finished /\ schema = 1 /\ comments /\ indent = 0 /\ gap = 1

\* C10 as stated: for the example schema and default options the output
\* begins with a blank line, and the documentation of color follows it.
C10_LeadingBlankLine ==
    ExampleRun
        => /\ Lines(result.text)[1] = <<>>
           /\ Lines(result.text)[2] = <<"#", " The color of the app.">>

\* C10 amended: for the example schema and default options the output is
\* the root documentation comment, a blank line, documentation and status of
\* color, "#color =", a blank line, "[log]", documentation and status of
\* stdout, "#stdout = true", a blank line, documentation and environment
\* status of file, "#file ="; and for every schema the names appear in the
\* output in pre-order declaration order.
C10_ExampleOutput ==
    /\ ExampleRun => Lines(result.text) = Expected
    /\ Finished => OutputNames(Lines(result.text)) = PreOrderNames(Schema(schema))

C10_Witness ==
    /\ ExampleRun
    /\ Len(Lines(result.text)) = 18
    /\ OutputNames(Lines(result.text)) = <<"color", "log", "stdout", "file">>

\* The first line of the log section in Expected: its header.
LogStart == CHOOSE i \in 1..Len(Expected) : IsHeader(Expected[i])

IndentTwoRun == Finished /\ schema = 1 /\ comments /\ indent = 2 /\ gap = 1

\* C11 as stated: with indent = 2 and the example schema every line written
\* inside the log section, from its header on, carries a 2-space prefix, and
\* the lines before it are those of indent = 0.
C11_EveryLogLinePrefixed ==
    IndentTwoRun
        => LET ls == Lines(result.text)
           IN  /\ Len(ls) = Len(Expected)
               /\ \A i \in 1..Len(ls) :
                    ls[i] = IF i >= LogStart THEN <<SP, SP>> \o Expected[i] ELSE Expected[i]

\* C11 amended: with indent = 2 and the example schema every non-blank line
\* written inside the log section (header, comments, assignments) carries a
\* 2-space prefix, the blank gap line between its fields stays empty, and the
\* lines before the header are those of indent = 0.
C11_NonBlankLogLinesPrefixed ==
    IndentTwoRun
        => LET ls == Lines(result.text)
           IN  /\ Len(ls) = Len(Expected)
               /\ \A i \in 1..Len(ls) :
                    ls[i] = IF i >= LogStart /\ Expected[i] # <<>>
                            THEN <<SP, SP>> \o Expected[i]
                            ELSE Expected[i]

C11_Witness ==
    /\ IndentTwoRun
    /\ Lines(result.text)[LogStart] = <<SP, SP, "[", "log", "]">>
    /\ Lines(result.text)[Len(Expected)] = <<SP, SP, "#", "file", " =">>
    /\ \E i \in LogStart..Len(Expected) : Lines(result.text)[i] = <<>>

-----------------------------------------------------------------------------
(* Further claims, checked under Spec *)

\* C12: start_main() appends exactly one blank line to the buffer and leaves
\* the stack as it was.
C12_StartMainOneBlankLine ==
    (call.op = "start_main")
        => /\ status = "live"
           /\ stack = pre.stack
           /\ buffer = pre.buffer \o <<NL>>
           /\ AppendedLines = << <<>> >>

C12_Witness ==
    /\ call.op = "start_main" /\ stack = <<"a", "b">> /\ indent = 2
    /\ pre.buffer # <<>>
    /\ Appended = <<NL>>

-----------------------------------------------------------------------------
(* Further claims, checked under FormatSpec *)

-----------------------------------------------------------------------------
(* Further claims, checked under Spec (continued) *)

\* A default the TOML serializer rejects
Unprintable(value) == value.tag # "None" /\ ~TomlToString(value).ok

\* C14: when the default of disabled_field cannot be serialized the call
\* panics; nothing is returned then or later, and no returned text holds a
\* field line that was left unfinished.
C14_SerializationFailureAborts ==
    /\ (call.op = "disabled_field" /\ Unprintable(call.value))
          => /\ status = "panicked"
             /\ panicMsg = "string serialization to TOML failed"
             /\ result = NoResult
    /\ (status = "panicked") => ~result.some
    /\ result.some
          => /\ (result.text # <<>> => Last(result.text) = NL)
             /\ \A i \in 1..Len(Lines(result.text)) :
                    LET l == Strip(Lines(result.text)[i])
                    IN  (Len(l) >= 3 /\ l[1] = "#" /\ l[3] = " = ") => Len(l) > 3

C14_Witness ==
    /\ call.op = "disabled_field" /\ Unprintable(call.value)
    /\ status = "panicked" /\ Len(stack) = 1 /\ pre.buffer # <<>>
    /\ Last(buffer) = " = "

\* C15: the buffer is append-only: every operation leaves the previous
\* content as a prefix of the new content, and the text finish() returns is
\* the buffer as it is at that moment.
C15_BufferAppendOnly ==
    /\ [][IsPrefix(buffer, buffer')]_vars
    /\ [](IsPrefix(pre.buffer, buffer))
    /\ []((call.op = "finish" /\ status = "finished")
            => (result.text = buffer /\ buffer = pre.buffer))

C15_Witness ==
    /\ call.op = "finish" /\ status = "finished"
    /\ nEnter = 1 /\ nExit = 1 /\ ncalls = 5
    /\ result.text = buffer /\ Len(Lines(buffer)) >= 3

\* C16: start_nested called at depth d pushes the name first, so its
\* documentation lines and its header are all indented by (d + 1) * indent
\* spaces, and the documentation lines come in their order right before the
\* header.
C16_SectionDocsAtNewDepth ==
    (call.op = "start_nested")
        => LET d == Len(pre.stack)
               ls == AppendedLines
           IN  /\ stack = Append(pre.stack, call.name)
               /\ Len(ls) = Len(call.doc) + 1
               /\ \A i \in 1..Len(ls) : LeadingSpaces(ls[i]) = (d + 1) * indent
               /\ \A i \in 1..Len(call.doc) :
                    ls[i] = Spaces((d + 1) * indent) \o <<"#">> \o Str(call.doc[i])
               /\ Strip(ls[Len(ls)])[1] = "["

C16_Witness ==
    /\ call.op = "start_nested" /\ pre.stack = <<"a">> /\ indent = 2
    /\ call.doc = <<" d1", " d2">>
    /\ AppendedLines = << <<SP, SP, SP, SP, "#", " d1">>,
                          <<SP, SP, SP, SP, "#", " d2">>,
                          <<SP, SP, SP, SP, "[", "a", ".", "b", "]">> >>

\* C17: end_nested() on a non-empty stack removes the name pushed last,
\* leaves the names below it as they were and writes nothing.
C17_ExitPopsTop ==
    (call.op = "end_nested" /\ pre.stack # <<>>)
        => /\ status = "live"
           /\ Len(stack) = Len(pre.stack) - 1
           /\ \A i \in 1..Len(stack) : stack[i] = pre.stack[i]
           /\ pre.stack = Append(stack, Last(pre.stack))
           /\ buffer = pre.buffer

C17_Witness ==
    /\ call.op = "end_nested" /\ pre.stack = <<"a", "b", "c">>
    /\ stack = <<"a", "b">> /\ buffer = pre.buffer /\ buffer # <<>>

\* C18: as long as no end_nested call met an empty stack, the stack is the
\* list of the names of the start_nested calls not yet matched, in order, and
\* its depth is #start_nested - #end_nested; so a section entered after its
\* sibling was left gets the parent's path and its own name: a, b, end, c
\* gives [a.c].
C18_StackIsUnmatchedEnters ==
    /\ wellNested => (stack = open /\ Len(stack) = nEnter - nExit)
    /\ (call.op = "start_nested" /\ wellNested /\ nExit > 0)
          => /\ HeaderPath(Last(AppendedLines)) = Append(pre.stack, call.name)
             /\ Len(HeaderPath(Last(AppendedLines))) = nEnter - nExit
    /\ (call.op = "start_nested" /\ ncalls = 4 /\ nExit = 1
            /\ pre.stack = <<"a">> /\ call.name = "c")
          => Strip(Last(AppendedLines)) = <<"[", "a", ".", "c", "]">>

C18_Witness ==
    /\ call.op = "start_nested" /\ ncalls = 4 /\ nEnter = 3 /\ nExit = 1
    /\ call.name = "c" /\ stack = <<"a", "c">>
    /\ Strip(Last(AppendedLines)) = <<"[", "a", ".", "c", "]">>
    /\ \E i \in 1..Len(Lines(pre.buffer)) :
            Strip(Lines(pre.buffer)[i]) = <<"[", "a", ".", "b", "]">>

\* C19: a new formatter has an empty buffer and an empty stack; a formatter
\* that has not panicked has an empty stack exactly when as many end_nested
\* as start_nested calls were made; comment and disabled_field leave the
\* stack, empty or not, as it was.
C19_IdleIffBalanced ==
    /\ (ncalls = 0) => (buffer = <<>> /\ stack = <<>> /\ status = "live")
    /\ (status # "panicked") => ((stack = <<>>) <=> (nEnter = nExit))
    /\ (call.op \in {"comment", "disabled_field"})
          => (stack = pre.stack /\ ((stack = <<>>) <=> (nEnter = nExit)))

C19_Witness ==
    /\ call.op = "disabled_field" /\ status = "live"
    /\ stack = <<>> /\ nEnter = 1 /\ nExit = 1 /\ ncalls = 3

-----------------------------------------------------------------------------
(* WideSpec: the formatter driven freely with indent over the range of u8 *)

WideIndents == {0, 1, 128, 255}

WideInit ==
    /\ \E ind \in WideIndents : new(ind)
    /\ comments = TRUE
    /\ gap = 1
    /\ schema = 0
    /\ pending = <<>>
    /\ first = NoResult

WideNext == comment \/ start_nested \/ end_nested

WideSpec == WideInit /\ [][WideNext]_vars

\* C20: stack depth * indent, with indent a u8 widened to usize, never wraps
\* for a depth the bounds allow, so the prefix of every comment and header
\* line has exactly that many spaces.
C20_IndentProductExact ==
    LET n == Len(stack) * indent
    IN  /\ indent \in 0..255
        /\ n < UsizeModulus
        /\ (call.op = "comment")
              => /\ Len(Appended) = n + Len(call.text) + 2
                 /\ \A i \in 1..n : Appended[i] = SP
                 /\ Appended[n + 1] = "#"
        /\ (call.op = "start_nested" /\ call.doc = <<>>)
              => /\ Len(Appended) = n + 2 * Len(stack) + 2
                 /\ \A i \in 1..n : Appended[i] = SP
                 /\ Appended[n + 1] = "["

C20_Witness ==
    /\ call.op = "comment" /\ indent = 255 /\ Len(stack) = MaxDepth
    /\ Len(Appended) >= 255 * MaxDepth
    /\ Appended[255 * MaxDepth] = SP /\ Appended[255 * MaxDepth + 1] = "#"

====
